---- MODULE Spec2Model ----
(***************************************************************************)
(* A model of the LexiDrom text comparison pipeline:                       *)
(*   app/services/text_comparison_service.py  (TextComparisonService)      *)
(*   app/api/text_comparison.py               (POST / endpoint)            *)
(*   app/models/schemas.py                    (TextComparisonResponse)     *)
(*                                                                         *)
(* Request texts are sequences of whitespace-delimited words.  The raw     *)
(* model response is a sequence of lexical tokens (JSON punctuation,       *)
(* quoted string literals, number literals, words, line breaks); the JSON  *)
(* decoder and the line scan below work on those tokens.                   *)
(***************************************************************************)
EXTENDS Integers, Sequences, FiniteSets, TLC

VARIABLES
    model,          \* self.model: "configured" or "none"
    original_text,  \* request.original_text, a sequence of words
    summary_text,   \* request.summary_text, a sequence of words
    reading_mode,   \* request.reading_mode
    pc,             \* position inside compare_texts
    prompt,         \* local variable prompt of compare_texts
    response,       \* local variable response of compare_texts
    result,         \* the tuple compare_texts returned
    tier,           \* which return statement produced result
    calls,          \* number of model.generate_content invocations so far
    prompts,        \* number of _create_comparison_prompt invocations so far
    http,           \* position inside the POST / endpoint
    tracker,        \* module global tracker: "none" or "present"
    tracking_status,\* local variable tracking_status of the endpoint
    success,        \* local variable success of the endpoint: what the tracker returned
    supabase,       \* a SupabaseManager: client, _connected and what was asked of it
    body,           \* the TextComparisonResponse sent with status 200
    description,    \* local variable mode_desc of _create_comparison_prompt
    other,          \* the request and local variables of a second compare_texts call
    race_service,   \* module global race_service of app/api/random_text.py
    race_request,   \* the query parameters of the last random-text request
    race_response   \* the status and the texts answered to that request

vars == <<model, original_text, summary_text, reading_mode, pc, prompt,
          response, result, tier, calls, prompts, http, tracker,
          tracking_status, success, supabase, body, description, other, race_service,
          race_request, race_response>>

(***************************************************************************)
(* Bounds of the model.                                                    *)
(***************************************************************************)
\* longest request text, in words
MaxWords == 1
\* longest point list inside a generated result object
MaxPoints == 2

Min(a, b) == IF a < b THEN a ELSE b

RECURSIVE SeqsUpTo(_, _)
SeqsUpTo(S, n) ==
    IF n = 0 THEN {<<>>}
    ELSE LET shorter == SeqsUpTo(S, n - 1)
         IN  shorter \cup {Append(s, x) : s \in shorter, x \in S}

(***************************************************************************)
(* Python values.  Every value is a record of one shape so that any two    *)
(* can be compared: t is the Python type, n an integer payload (a float    *)
(* holds its value in tenths), s a string payload as a word sequence, l    *)
(* the elements of a list.  List elements carry t, n, s only.              *)
(***************************************************************************)
IntA(n)   == [t |-> "int",   n |-> n, s |-> <<>>]
FloatA(n) == [t |-> "float", n |-> n, s |-> <<>>]
StrA(s)   == [t |-> "str",   n |-> 0, s |-> s]
NoneA     == [t |-> "None",  n |-> 0, s |-> <<>>]
ListA     == [t |-> "list",  n |-> 0, s |-> <<>>]
DictA     == [t |-> "dict",  n |-> 0, s |-> <<>>]

Atom(v)   == [t |-> v.t, n |-> v.n, s |-> v.s]
Wrap(a, l) == [t |-> a.t, n |-> a.n, s |-> a.s, l |-> l]

IntV(n)   == Wrap(IntA(n), <<>>)
FloatV(n) == Wrap(FloatA(n), <<>>)
StrV(s)   == Wrap(StrA(s), <<>>)
NoneV     == Wrap(NoneA, <<>>)
ListV(l)  == Wrap(ListA, l)
DictV     == Wrap(DictA, <<>>)

\* a list of str built from a sequence of strings
StrListV(ss) == ListV([i \in DOMAIN ss |-> StrA(ss[i])])

\* the tuple (accuracy_score, correct_points, missed_points, wrong_points)
Tuple4(a, c, m, w) == [score |-> a, correct |-> c, missed |-> m, wrong |-> w]

NoResult == Tuple4(NoneV, NoneV, NoneV, NoneV)

IsInt(v)     == v.t = "int"
IsStrList(v) == v.t = "list" /\ \A i \in DOMAIN v.l : v.l[i].t = "str"

(***************************************************************************)
(* _simple_comparison: the local word-overlap scorer.                      *)
(***************************************************************************)
Vocabulary == {"a", "A", "b"}

\* str.lower() on one word
Lower(w) == CASE w = "A" -> "a"
              [] w = "B" -> "b"
              [] OTHER   -> w

\* set(text.lower().split())
WordSet(text) == {Lower(text[i]) : i \in DOMAIN text}

DefaultOverlapScore == 50

\* an overlap score without the test for an empty reference
_simple_comparison_unguarded(original, summary) ==
    LET original_words == WordSet(original)
        summary_words  == WordSet(summary)
        overlap        == Cardinality(original_words \cap summary_words)
        total_original == Cardinality(original_words)
        accuracy_score ==
            IF total_original > 0
            THEN Min(100, (overlap * 100) \div total_original)
            ELSE 0
    IN  Tuple4(IntV(accuracy_score),
               StrListV(<< <<"Basic", "content", "overlap", "detected">> >>),
               StrListV(<< <<"Detailed", "analysis", "not", "available">> >>),
               StrListV(<<>>))

\* an overlap score measured against the words of the summary
_simple_comparison_by_summary(original, summary) ==
    LET original_words == WordSet(original)
        summary_words  == WordSet(summary)
        overlap        == Cardinality(original_words \cap summary_words)
        total_summary  == Cardinality(summary_words)
        accuracy_score ==
            IF total_summary > 0
            THEN Min(100, (overlap * 100) \div total_summary)
            ELSE DefaultOverlapScore
    IN  Tuple4(IntV(accuracy_score),
               StrListV(<< <<"Basic", "content", "overlap", "detected">> >>),
               StrListV(<< <<"Detailed", "analysis", "not", "available">> >>),
               StrListV(<<>>))

_simple_comparison(original, summary) ==
    LET original_words == WordSet(original)
        summary_words  == WordSet(summary)
        overlap        == Cardinality(original_words \cap summary_words)
        total_original == Cardinality(original_words)
        accuracy_score ==
            IF total_original > 0
            THEN Min(100, (overlap * 100) \div total_original)
            ELSE DefaultOverlapScore
    IN  Tuple4(IntV(accuracy_score),
               StrListV(<< <<"Basic", "content", "overlap", "detected">> >>),
               StrListV(<< <<"Detailed", "analysis", "not", "available">> >>),
               StrListV(<<>>))

(***************************************************************************)
(* _create_comparison_prompt: the f-string interpolates original_text and  *)
(* summary_text; mode_desc is computed and not interpolated.               *)
(***************************************************************************)
KnownModes == {"skimming", "comprehension", "study", "review", "summary",
               "detailed", "critical", "comparison"}

\* lines 68-77
mode_descriptions ==
    [m \in KnownModes |->
        CASE m = "skimming" -> "Quick overview focusing on main ideas and key points"
          [] m = "comprehension" ->
                "Understanding check and verification of key concepts"
          [] m = "study" ->
                "Educational focus with detailed analysis of learning objectives"
          [] m = "review" ->
                "Revision and retention focus with emphasis on important details"
          [] m = "summary" ->
                "Summary generation and evaluation with focus on conciseness"
          [] m = "detailed" -> "Comprehensive analysis of all content and details"
          [] m = "critical" -> "Analysis and evaluation of arguments and evidence"
          [] m = "comparison" ->
                "Compare multiple texts or versions with emphasis on differences"]

\* a lookup whose default is the first entry of the table
mode_desc_first(mode) ==
    IF mode \in DOMAIN mode_descriptions THEN mode_descriptions[mode]
    ELSE mode_descriptions["skimming"]

\* mode_descriptions.get(reading_mode, mode_descriptions["detailed"])
mode_desc(mode) ==
    IF mode \in DOMAIN mode_descriptions THEN mode_descriptions[mode]
    ELSE mode_descriptions["detailed"]

Lit(name) == [lit |-> name, txt |-> <<>>]
Txt(text) == [lit |-> "",   txt |-> text]

_create_comparison_prompt(original, summary, mode) ==
    LET desc == mode_desc(mode)
    IN  << Lit("analyst-intro"),
           Lit("original-text-header"), Txt(original),
           Lit("summary-header"), Txt(summary),
           Lit("analysis-instructions"),
           Lit("response-format"),
           Lit("guidelines") >>

NoPrompt == <<>>

(***************************************************************************)
(* Lexical tokens of a raw model response.  The text a token sequence      *)
(* stands for is its tokens joined by one space, a line break token        *)
(* standing for "\n".                                                      *)
(***************************************************************************)
NL == "\n"

QAccuracyScore == "\"accuracy_score\""
QCorrectPoints == "\"correct_points\""
QMissedPoints  == "\"missed_points\""
QWrongPoints   == "\"wrong_points\""

StringLiterals == {QAccuracyScore, QCorrectPoints, QMissedPoints, QWrongPoints,
                   "\"a\"", "\"b\"", "\"c\"", "\"high\"", "\"note\""}

\* the str a JSON string literal decodes to
StringOf(tok) ==
    CASE tok = QAccuracyScore -> <<"accuracy_score">>
      [] tok = QCorrectPoints -> <<"correct_points">>
      [] tok = QMissedPoints  -> <<"missed_points">>
      [] tok = QWrongPoints   -> <<"wrong_points">>
      [] tok = "\"a\""        -> <<"a">>
      [] tok = "\"b\""        -> <<"b">>
      [] tok = "\"c\""        -> <<"c">>
      [] tok = "\"high\""     -> <<"high">>
      [] tok = "\"note\""     -> <<"note">>

\* the JSON string literal json.dumps writes for a str
QuoteOf(s) ==
    CHOOSE tok \in StringLiterals : StringOf(tok) = s

\* integer literals are written in decimal
IntRange == -9 .. 300
IntLiterals   == {ToString(n) : n \in {-5, 0, 7, 70, 82, 100, 140, 250}}
FloatLiterals == {"82.5"}

\* the number a JSON number literal decodes to (int, or float for a fraction)
NumberOf(tok) ==
    IF tok \in FloatLiterals
    THEN FloatV(825)
    ELSE IntV(CHOOSE n \in IntRange : ToString(n) = tok)

\* int(m.group(1)) for the longest run of digits a token starts with, -1 if
\* the token does not start with a digit
LeadingDigits(tok) ==
    CASE tok = "82.5"         -> 82
      [] tok \in IntLiterals  ->
            LET n == CHOOSE k \in IntRange : ToString(k) = tok
            IN  IF n >= 0 THEN n ELSE -1
      [] OTHER                -> -1

(***************************************************************************)
(* json.loads on a token sequence: a recursive descent over the JSON       *)
(* grammar.  A parse is [ok, v, members, next]: v the decoded value,       *)
(* members the (key, value) pairs of a decoded object in text order, next  *)
(* the index after the value.                                              *)
(***************************************************************************)
JsonFail == [ok |-> FALSE, v |-> NoneV, members |-> <<>>, next |-> 0]
JsonOk(v, members, next) ==
    [ok |-> TRUE, v |-> v, members |-> members, next |-> next]

RECURSIVE JsonValue(_, _), JsonElements(_, _, _), JsonMembers(_, _, _)

JsonValue(toks, i) ==
    IF i > Len(toks) THEN JsonFail
    ELSE LET tk == toks[i]
         IN  CASE tk \in StringLiterals -> JsonOk(StrV(StringOf(tk)), <<>>, i + 1)
               [] tk \in IntLiterals \cup FloatLiterals ->
                     JsonOk(NumberOf(tk), <<>>, i + 1)
               [] tk = "null" -> JsonOk(NoneV, <<>>, i + 1)
               [] tk = "[" ->
                     IF i + 1 <= Len(toks) /\ toks[i + 1] = "]"
                     THEN JsonOk(ListV(<<>>), <<>>, i + 2)
                     ELSE JsonElements(toks, i + 1, <<>>)
               [] tk = "{" ->
                     IF i + 1 <= Len(toks) /\ toks[i + 1] = "}"
                     THEN JsonOk(DictV, <<>>, i + 2)
                     ELSE JsonMembers(toks, i + 1, <<>>)
               [] OTHER -> JsonFail

\* value ("," value)* "]"
JsonElements(toks, i, acc) ==
    LET e == JsonValue(toks, i)
    IN  IF ~e.ok \/ e.next > Len(toks) THEN JsonFail
        ELSE LET acc2 == Append(acc, Atom(e.v))
             IN  CASE toks[e.next] = "]" -> JsonOk(ListV(acc2), <<>>, e.next + 1)
                   [] toks[e.next] = "," -> JsonElements(toks, e.next + 1, acc2)
                   [] OTHER -> JsonFail

\* string ":" value ("," string ":" value)* "}"
JsonMembers(toks, i, acc) ==
    IF i + 1 > Len(toks) \/ toks[i] \notin StringLiterals \/ toks[i + 1] # ":"
    THEN JsonFail
    ELSE LET e == JsonValue(toks, i + 2)
         IN  IF ~e.ok \/ e.next > Len(toks) THEN JsonFail
             ELSE LET acc2 == Append(acc, [key |-> StringOf(toks[i]), val |-> e.v])
                  IN  CASE toks[e.next] = "}" -> JsonOk(DictV, acc2, e.next + 1)
                        [] toks[e.next] = "," -> JsonMembers(toks, e.next + 1, acc2)
                        [] OTHER -> JsonFail

\* json.loads(json_str): the whole text must be one value
json_loads(toks) ==
    LET p == JsonValue(toks, 1)
    IN  IF p.ok /\ p.next = Len(toks) + 1 THEN p ELSE JsonFail

\* data.get(key, default) on a decoded object: a repeated key keeps its last value
dict_get(members, key, default) ==
    LET hits == {i \in DOMAIN members : members[i].key = key}
    IN  IF hits = {} THEN default
        ELSE members[CHOOSE i \in hits : \A j \in hits : j <= i].val

\* re.search(r'\{.*\}', response_text, re.DOTALL): from the first "{" to the
\* last "}" after it; <<>> stands for no match
json_match(text) ==
    LET opens  == {i \in DOMAIN text : text[i] = "{"}
        first  == CHOOSE i \in opens : \A j \in opens : i <= j
        closes == {i \in DOMAIN text : text[i] = "}" /\ i > first}
        last   == CHOOSE i \in closes : \A j \in closes : j <= i
    IN  IF opens = {} THEN <<>>
        ELSE IF closes = {} THEN <<>>
        ELSE SubSeq(text, first, last)

(***************************************************************************)
(* _fallback_parsing: the heuristic line scan.                             *)
(***************************************************************************)
DefaultScore == 50

\* tokens whose lowercase text ends with "accuracy"
IsAccuracyWord(tok) == tok \in {"Accuracy", "accuracy"}
\* tokens whose lowercase text is "score" followed by colons only
IsScoreWord(tok) == tok \in {"Score:", "score:", "Score", "score"}

\* index after "accuracy[_\s]?score" when it starts at token i, else 0: the
\* two words are one whitespace character apart (a space or one line break)
LabelEnd(text, i) ==
    IF ~IsAccuracyWord(text[i]) THEN 0
    ELSE IF i + 1 <= Len(text) /\ IsScoreWord(text[i + 1]) THEN i + 2
    ELSE IF i + 2 <= Len(text) /\ text[i + 1] = NL /\ IsScoreWord(text[i + 2])
         THEN i + 3
    ELSE 0

\* "[:\s]*": the first index from j on that holds neither ":" nor a line break
RECURSIVE SkipSeparators(_, _)
SkipSeparators(text, j) ==
    IF j <= Len(text) /\ text[j] \in {":", NL}
    THEN SkipSeparators(text, j + 1)
    ELSE j

\* int(score_match.group(1)) for a match starting at token i, else -1
ScoreAt(text, i) ==
    LET e == LabelEnd(text, i)
        k == SkipSeparators(text, e)
    IN  IF e = 0 \/ k > Len(text) THEN -1 ELSE LeadingDigits(text[k])

\* re.search(r'accuracy[_\s]?score[:\s]*(\d+)', ...): the leftmost match, -1
\* for None
score_match(text) ==
    LET hits == {i \in DOMAIN text : ScoreAt(text, i) >= 0}
    IN  IF hits = {} THEN -1
        ELSE ScoreAt(text, CHOOSE i \in hits : \A j \in hits : i <= j)

\* response_text.split('\n') with line.strip(): the token runs between breaks
RECURSIVE SplitLines(_, _, _)
SplitLines(text, i, line) ==
    IF i > Len(text) THEN << line >>
    ELSE IF text[i] = NL THEN << line >> \o SplitLines(text, i + 1, <<>>)
    ELSE SplitLines(text, i + 1, Append(line, text[i]))

\* the section keywords the lowercase text of a token contains
KeywordsIn(tok) ==
    CASE tok \in {"Correct:", "correct", QCorrectPoints} -> {"correct"}
      [] tok \in {"Incorrect", "incorrect"}              -> {"correct", "incorrect"}
      [] tok \in {"Good", "good"}                        -> {"good"}
      [] tok \in {"accurate"}                            -> {"accurate"}
      [] tok \in {"Missed:", "missed", QMissedPoints}    -> {"missed"}
      [] tok \in {"missing"}                             -> {"missing"}
      [] tok \in {"Wrong:", "wrong", QWrongPoints}       -> {"wrong"}
      [] tok \in {"error", "Errors:"}                    -> {"error"}
      [] OTHER                                           -> {}

\* kw in line.lower() for some kw of kws
LineHas(line, kws) == \E i \in DOMAIN line : KeywordsIn(line[i]) \cap kws # {}

\* the token that stands for the bullet character U+2022
Bullet == "u2022"

\* line.startswith('-') or line.startswith(U+2022) or line.startswith('*')
StartsWithBullet(line) == line[1] \in {"-", Bullet, "*", "-5"}

\* the line with its marker left in place
line_with_marker(line) == line

\* line[1:].strip()
AfterMarker(line) ==
    (IF line[1] = "-5" THEN <<"5">> ELSE <<>>) \o Tail(line)

NoSection == "None"

\* a loop body that files a bullet under correct when no section is active
ScanLineOpen(st, line) ==
    IF line = <<>> THEN st
    ELSE IF LineHas(line, {"correct", "good", "accurate"})
         THEN [st EXCEPT !.current_section = "correct"]
    ELSE IF LineHas(line, {"missed", "missing"})
         THEN [st EXCEPT !.current_section = "missed"]
    ELSE IF LineHas(line, {"wrong", "incorrect", "error"})
         THEN [st EXCEPT !.current_section = "wrong"]
    ELSE IF StartsWithBullet(line)
         THEN LET point == AfterMarker(line)
              IN  IF point # <<>>
                  THEN CASE st.current_section = "missed" ->
                                [st EXCEPT !.missed_points = Append(@, StrA(point))]
                         [] st.current_section = "wrong" ->
                                [st EXCEPT !.wrong_points = Append(@, StrA(point))]
                         [] OTHER ->
                                [st EXCEPT !.correct_points = Append(@, StrA(point))]
                  ELSE st
    ELSE st

\* one pass of the loop body (lines 175-193) over scan state st
ScanLine(st, line) ==
    IF line = <<>> THEN st
    ELSE IF LineHas(line, {"correct", "good", "accurate"})
         THEN [st EXCEPT !.current_section = "correct"]
    ELSE IF LineHas(line, {"missed", "missing"})
         THEN [st EXCEPT !.current_section = "missed"]
    ELSE IF LineHas(line, {"wrong", "incorrect", "error"})
         THEN [st EXCEPT !.current_section = "wrong"]
    ELSE IF StartsWithBullet(line)
         THEN LET point == AfterMarker(line)
              IN  IF point # <<>> /\ st.current_section # NoSection
                  THEN CASE st.current_section = "correct" ->
                                [st EXCEPT !.correct_points = Append(@, StrA(point))]
                         [] st.current_section = "missed" ->
                                [st EXCEPT !.missed_points = Append(@, StrA(point))]
                         [] st.current_section = "wrong" ->
                                [st EXCEPT !.wrong_points = Append(@, StrA(point))]
                  ELSE st
    ELSE st

RECURSIVE ScanLinesBackwards(_, _, _)
\* a loop that takes the lines from the last to the first
ScanLinesBackwards(lines, k, st) ==
    IF k > Len(lines) THEN st
    ELSE ScanLinesBackwards(lines, k + 1, ScanLine(st, lines[Len(lines) + 1 - k]))

RECURSIVE ScanLines(_, _, _)
ScanLines(lines, k, st) ==
    IF k > Len(lines) THEN st
    ELSE ScanLines(lines, k + 1, ScanLine(st, lines[k]))

\* a scan that starts from a score of 0
_fallback_parsing_from_zero(text) ==
    LET m == score_match(text)
        accuracy_score == IF m >= 0 THEN m ELSE 0
        st == ScanLines(SplitLines(text, 1, <<>>), 1,
                        [current_section |-> NoSection,
                         correct_points |-> <<>>,
                         missed_points  |-> <<>>,
                         wrong_points   |-> <<>>])
    IN  Tuple4(IntV(accuracy_score), ListV(st.correct_points),
               ListV(st.missed_points), ListV(st.wrong_points))

_fallback_parsing(text) ==
    LET m == score_match(text)
        accuracy_score == IF m >= 0 THEN m ELSE DefaultScore
        st == ScanLines(SplitLines(text, 1, <<>>), 1,
                        [current_section |-> NoSection,
                         correct_points |-> <<>>,
                         missed_points  |-> <<>>,
                         wrong_points   |-> <<>>])
    IN  Tuple4(IntV(accuracy_score), ListV(st.correct_points),
               ListV(st.missed_points), ListV(st.wrong_points))

(***************************************************************************)
(* _parse_comparison_response.  Returns the tuple and, as via, the return  *)
(* statement that produced it.                                             *)
(***************************************************************************)
Returned(res, via) == [res |-> res, via |-> via]

\* the decoded lists returned in the wrong positions
StructuredResultSwapped(members) ==
    Tuple4(dict_get(members, <<"accuracy_score">>, IntV(0)),
           dict_get(members, <<"missed_points">>, ListV(<<>>)),
           dict_get(members, <<"correct_points">>, ListV(<<>>)),
           dict_get(members, <<"wrong_points">>, ListV(<<>>)))

\* lines 140-145: the four values are returned as decoded
StructuredResult(members) ==
    Tuple4(dict_get(members, <<"accuracy_score">>, IntV(0)),
           dict_get(members, <<"correct_points">>, ListV(<<>>)),
           dict_get(members, <<"missed_points">>, ListV(<<>>)),
           dict_get(members, <<"wrong_points">>, ListV(<<>>)))

\* an except clause that gives up instead of scanning the text
_parse_without_scan(response_text) ==
    LET json_str == json_match(response_text)
        data     == json_loads(json_str)
    IN  IF json_str # <<>>
        THEN IF data.ok /\ data.v.t = "dict"
             THEN Returned(StructuredResult(data.members), "structured")
             ELSE Returned(Tuple4(IntV(DefaultScore), ListV(<<>>), ListV(<<>>),
                                  ListV(<<>>)), "heuristic")
        ELSE Returned(_fallback_parsing(response_text), "heuristic")

\* an interpretation that scans first and decodes only when the scan found
\* neither a score nor a point
_parse_scan_first(response_text) ==
    LET json_str == json_match(response_text)
        data     == json_loads(json_str)
        scanned  == _fallback_parsing(response_text)
    IN  IF scanned # Tuple4(IntV(DefaultScore), ListV(<<>>), ListV(<<>>), ListV(<<>>))
        THEN Returned(scanned, "heuristic")
        ELSE IF json_str # <<>> /\ data.ok /\ data.v.t = "dict"
        THEN Returned(StructuredResult(data.members), "structured")
        ELSE Returned(scanned, "heuristic")

_parse_comparison_response(response_text) ==
    LET json_str == json_match(response_text)
        data     == json_loads(json_str)
    IN  IF json_str # <<>>
        THEN IF data.ok /\ data.v.t = "dict"
             THEN Returned(StructuredResult(data.members), "structured")
             ELSE \* except Exception (line 150)
                  Returned(_fallback_parsing(response_text), "heuristic")
        ELSE Returned(_fallback_parsing(response_text), "heuristic")

(***************************************************************************)
(* The raw texts the model may answer with.  A result object is a sequence *)
(* of (key, value) members; Serialize writes it in the JSON format the     *)
(* prompt asks for.                                                        *)
(***************************************************************************)
Member(key, val) == [key |-> <<key>>, val |-> val]

RECURSIVE JoinWith(_, _)
\* the token runs of parts, a sep token between consecutive runs
JoinWith(parts, sep) ==
    IF parts = <<>> THEN <<>>
    ELSE IF Len(parts) = 1 THEN parts[1]
    ELSE parts[1] \o <<sep>> \o JoinWith(Tail(parts), sep)

SerializeAtom(a) ==
    CASE a.t = "int"   -> <<ToString(a.n)>>
      [] a.t = "float" -> <<"82.5">>
      [] a.t = "str"   -> <<QuoteOf(a.s)>>
      [] a.t = "None"  -> <<"null">>

SerializeValue(v) ==
    IF v.t = "list"
    THEN <<"[">> \o JoinWith([i \in DOMAIN v.l |-> SerializeAtom(v.l[i])], ",") \o <<"]">>
    ELSE SerializeAtom(v)

Serialize(members) ==
    <<"{">>
    \o JoinWith([i \in DOMAIN members |->
                    <<QuoteOf(members[i].key), ":">> \o SerializeValue(members[i].val)],
                ",")
    \o <<"}">>

ResultObject(score, correct, missed, wrong) ==
    << Member("accuracy_score", score), Member("correct_points", correct),
       Member("missed_points", missed), Member("wrong_points", wrong) >>

\* result objects of the requested shape: a score in 0..100, three lists of strings
WellFormedObjects ==
    { ResultObject(IntV(n), StrListV(c), StrListV(m), StrListV(w)) :
        n \in {0, 82, 100},
        c \in SeqsUpTo({<<"a">>, <<"b">>}, MaxPoints),
        m \in {<<>>, << <<"b">> >>},
        w \in {<<>>, << <<"c">> >>} }

BaseObject ==
    ResultObject(IntV(82), StrListV(<< <<"a">> >>), StrListV(<< <<"b">> >>), StrListV(<<>>))

\* values a model may put under accuracy_score besides an integer in 0..100
OddScores == {IntV(140), IntV(250), IntV(-5), FloatV(825), StrV(<<"high">>), NoneV,
              ListV(<<>>)}
\* values a model may put under a points key besides a list of strings
OddLists == {NoneV, StrV(<<"a">>), IntV(7), ListV(<<IntA(7)>>),
             ListV(<<StrA(<<"a">>), NoneA>>)}

\* seq without its k-th element
Without(seq, k) == SubSeq(seq, 1, k - 1) \o SubSeq(seq, k + 1, Len(seq))

\* the base object with one member replaced or left out, the empty object, an
\* object of other keys, and an object that repeats a key
OddObjects ==
    { [BaseObject EXCEPT ![1].val = v] : v \in OddScores }
    \cup { [BaseObject EXCEPT ![k].val = v] : k \in 2..4, v \in OddLists }
    \cup { Without(BaseObject, k) : k \in 1..4 }
    \cup { <<>>, << Member("note", StrV(<<"a">>)) >>,
           BaseObject \o << Member("accuracy_score", IntV(7)) >> }

Base == Serialize(BaseObject)

\* texts with a decodable object and text around it
DecoratedTexts ==
    { <<"Here", "is", "the", "analysis:", NL>> \o Base,
      Base \o <<NL, "Accuracy", "Score:", "70", NL, "Missed:", NL, "-", "point", "two">>,
      <<"Accuracy", "Score:", "70", NL>> \o Base \o <<NL, "done">> }

\* texts with braces whose span from the first "{" to the last "}" is not JSON
BrokenTexts ==
    { <<"{", QAccuracyScore, "82", "}">>,
      <<"{", QAccuracyScore, ":", "82", ",", "}">>,
      <<"{", QAccuracyScore, ":", "}">>,
      <<"{", QCorrectPoints, ":", "[", "\"a\"", ",", "]", "}">>,
      <<"{", "82", "}">>,
      <<"{">> \o Base,
      Base \o <<"}">>,
      Base \o <<NL, "see", "{", "\"note\"", "}">>,
      <<"Accuracy", "Score:", "70", NL, "{", QAccuracyScore, "82", "}">>,
      <<"Accuracy", "Score:", "250", NL, "{", "}", "}">>,
      <<"Correct:", NL, "-", "{", "point", "}", "one">> }

\* texts without a "{" ... "}" span
ProseTexts ==
    { <<>>,
      <<"I", "cannot", "help">>,
      SubSeq(Base, 1, Len(Base) - 1),
      Tail(Base),
      <<"}", "{">>,
      <<"Accuracy", "Score:", "70", NL, "Correct:", NL, "-", "point", "one", NL,
        "Missed:", NL, "-", "point", "two">>,
      <<"Accuracy", "Score:", "250">>,
      <<"accuracy", NL, "score", ":", NL, "7", NL, "Wrong:", NL, "*", "point", "one">>,
      <<"-", "point", "one", NL, "Incorrect", "points:", NL, "-", "point", "two">>,
      <<"Missed:", NL, Bullet, "point", "one", NL, "-5", "points">>,
      <<"The", "summary", "is", "good">>,
      <<"Score:", "70", NL, NL, "no", "error">> }

ResponseTexts ==
    { Serialize(o) : o \in WellFormedObjects \cup OddObjects }
    \cup DecoratedTexts \cup BrokenTexts \cup ProseTexts

(***************************************************************************)
(* The response object of model.generate_content: reading response.text    *)
(* either yields a str or raises (ValueError when the reply has no text).  *)
(***************************************************************************)
NoResponse == [kind |-> "None", text |-> <<>>]
TextResponse(t) == [kind |-> "text", text |-> t]
BlockedResponse == [kind |-> "blocked", text |-> <<>>]

Responses == {BlockedResponse} \cup {TextResponse(t) : t \in ResponseTexts}

(***************************************************************************)
(* compare_texts                                                           *)
(***************************************************************************)
\* race_service before main.py assigns it, and no random-text request so far
NoService == [is_loaded |-> FALSE, articles |-> <<>>, set |-> FALSE]
NoRequest == [op |-> "None", count |-> 0, min_length |-> 0, max_length |-> 0]
NoReply == [status |-> 0, texts |-> <<>>]

\* SupabaseManager.__init__ (lines 14-18): no client, not connected.  last
\* and log remember what was asked of the manager: the outcome of the most
\* recent connect or disconnect, and the most recent log_activity call.
NoLog == [called |-> FALSE, after |-> "None", returned |-> FALSE, inserted |-> FALSE]

NewSupabase(credentials) ==
    [credentials |-> credentials, client |-> "None", _connected |-> FALSE,
     last |-> "None", log |-> NoLog]

\* no SupabaseManager is looked at
NoSupabase == NewSupabase(FALSE)

\* no second call is in progress
NoCall == [original_text |-> <<>>, summary_text |-> <<>>, reading_mode |-> "None",
           pc |-> "off", prompt |-> NoPrompt, response |-> NoResponse,
           result |-> NoResult, tier |-> "None", calls |-> 0]

RequestTexts == SeqsUpTo(Vocabulary, MaxWords)
RequestModes == {"skimming", "bogus"}

\* a try block that ends before line 52
TryBlockBeforeParse == {"prompt", "call"}

\* the statements inside the try block of compare_texts (lines 44-52)
TryBlock == {"prompt", "call", "parse"}

\* a handler that calls the model again when the call failed
RaiseRetry(at) == IF at = "call" THEN "call" ELSE "except"

\* where control goes when the statement at position at raises an Exception
Raise(at) == IF at \in TryBlock THEN "except" ELSE "raised"

\* an availability test that does not look at self.model
is_available_always == TRUE

\* self.is_available()
is_available == model # "none"

\* lines 40-42
CheckAvailable ==
    /\ pc = "entry"
    /\ IF ~is_available
       THEN /\ result' = _simple_comparison(original_text, summary_text)
            /\ tier' = "local"
            /\ pc' = "done"
       ELSE /\ pc' = "prompt"
            /\ UNCHANGED <<result, tier>>
    /\ UNCHANGED <<race_service, race_request, race_response, other, description, model, original_text, summary_text, reading_mode, prompt,
                   response, calls, prompts, http, tracker, tracking_status, success, supabase, body>>

\* line 46
CreatePrompt ==
    /\ pc = "prompt"
    /\ prompt' = _create_comparison_prompt(original_text, summary_text, reading_mode)
    /\ description' = mode_desc(reading_mode)
    /\ prompts' = prompts + 1
    /\ pc' = "call"
    /\ UNCHANGED <<race_service, race_request, race_response, other, model, original_text, summary_text, reading_mode, response,
                   result, tier, calls, http, tracker, tracking_status, success, supabase, body>>

\* line 49: the call returns a response or raises
GenerateContent ==
    /\ pc = "call"
    /\ calls' = calls + 1
    /\ \/ /\ pc' = Raise("call")
          /\ UNCHANGED response
       \/ \E r \in Responses :
            /\ response' = r
            /\ pc' = "parse"
    /\ UNCHANGED <<race_service, race_request, race_response, other, description, model, original_text, summary_text, reading_mode, prompt,
                   result, tier, prompts, http, tracker, tracking_status, success, supabase, body>>

\* line 52: response.text is read, then interpreted
ParseResponse ==
    /\ pc = "parse"
    /\ IF response.kind = "blocked"
       THEN /\ pc' = Raise("parse")
            /\ UNCHANGED <<result, tier>>
       ELSE LET r == _parse_comparison_response(response.text)
            IN  /\ result' = r.res
                /\ tier' = r.via
                /\ pc' = "done"
    /\ UNCHANGED <<race_service, race_request, race_response, other, description, model, original_text, summary_text, reading_mode, prompt,
                   response, calls, prompts, http, tracker, tracking_status, success, supabase, body>>

\* the except clause with the two texts in the wrong order
HandlerResultSwapped == _simple_comparison(summary_text, original_text)

\* the tuple the except clause returns (line 57)
HandlerResult == _simple_comparison(original_text, summary_text)

\* lines 54-57
ExceptHandler ==
    /\ pc = "except"
    /\ result' = HandlerResult
    /\ tier' = "local"
    /\ pc' = "done"
    /\ UNCHANGED <<race_service, race_request, race_response, other, description, model, original_text, summary_text, reading_mode, prompt,
                   response, calls, prompts, http, tracker, tracking_status, success, supabase, body>>

Init ==
    /\ model \in {"configured", "none"}
    /\ original_text \in RequestTexts
    /\ summary_text \in RequestTexts
    /\ reading_mode \in RequestModes
    /\ pc = "entry"
    /\ prompt = NoPrompt
    /\ response = NoResponse
    /\ result = NoResult
    /\ tier = "None"
    /\ calls = 0
    /\ prompts = 0
    /\ http = "off"
    /\ tracker = "none"
    /\ tracking_status = "None"
    /\ success = "None"
    /\ supabase = NoSupabase
    /\ body = NoResult
    /\ description = "None"
    /\ other = NoCall
    /\ race_service = NoService
    /\ race_request = NoRequest
    /\ race_response = NoReply

Next ==
    \/ CheckAvailable
    \/ CreatePrompt
    \/ GenerateContent
    \/ ParseResponse
    \/ ExceptHandler

Spec == Init /\ [][Next]_vars

(***************************************************************************)
(* POST / (app/api/text_comparison.py): the endpoint awaits compare_texts, *)
(* records the activity and builds a TextComparisonResponse.               *)
(***************************************************************************)
ScoreMin == 0
ScoreMax == 100

Field(accepts, rejects) == [accepts |-> accepts, rejects |-> rejects]

\* accuracy_score: int = Field(..., ge=0, le=100).  accepts holds the values
\* validation may store, rejects says whether it may raise ValidationError.
\* A float with a fraction is truncated by pydantic 1 and refused by pydantic 2.
ScoreField(v) ==
    LET InRange(n) == ScoreMin <= n /\ n <= ScoreMax
    IN  CASE v.t = "int"   -> IF InRange(v.n) THEN Field({v}, FALSE) ELSE Field({}, TRUE)
          [] v.t = "float" -> IF InRange(v.n \div 10)
                              THEN Field({IntV(v.n \div 10)}, TRUE)
                              ELSE Field({}, TRUE)
          [] OTHER         -> Field({}, TRUE)

\* str(x) on a list element that is an int
StrOfInt(a) == StrA(<<ToString(a.n)>>)

\* correct_points: List[str] (and the two like it).  A list of str is stored
\* as it is; an int element is turned into a str by pydantic 1 and refused
\* by pydantic 2; anything else is refused.
PointsField(v) ==
    IF v.t # "list" THEN Field({}, TRUE)
    ELSE IF \A i \in DOMAIN v.l : v.l[i].t = "str" THEN Field({v}, FALSE)
    ELSE IF \A i \in DOMAIN v.l : v.l[i].t \in {"str", "int"}
         THEN Field({ListV([i \in DOMAIN v.l |->
                              IF v.l[i].t = "int" THEN StrOfInt(v.l[i]) ELSE v.l[i]])},
                    TRUE)
    ELSE Field({}, TRUE)

\* lines 83-87: "tracked" if success else "failed"; the except clause says "failed"
status_of(outcome) == IF outcome = "True" THEN "tracked" ELSE "failed"

\* lines 57-89: tracking_status after the tracker was asked, or not
TrackActivity ==
    /\ http = "await"
    /\ pc = "done"
    /\ IF tracker = "none"
       THEN /\ tracking_status' = "not_tracked"
            /\ UNCHANGED success
       ELSE \E outcome \in {"True", "False", "raised"} :
              /\ success' = outcome
              /\ tracking_status' = status_of(outcome)
    /\ http' = "respond"
    /\ UNCHANGED <<race_service, race_request, race_response, other, description, model, original_text, summary_text, reading_mode, pc, prompt,
                   response, result, tier, calls, prompts, tracker, supabase, body>>

\* lines 91-100: the response is validated; a ValidationError is caught by the
\* endpoint's except clause and becomes HTTPException(status_code=500)
Respond ==
    /\ http = "respond"
    /\ LET a == ScoreField(result.score)
           c == PointsField(result.correct)
           m == PointsField(result.missed)
           w == PointsField(result.wrong)
       IN  \/ \E av \in a.accepts, cv \in c.accepts, mv \in m.accepts, wv \in w.accepts :
                /\ body' = Tuple4(av, cv, mv, wv)
                /\ http' = "ok200"
           \/ /\ a.rejects \/ c.rejects \/ m.rejects \/ w.rejects
              /\ http' = "error500"
              /\ UNCHANGED body
    /\ UNCHANGED <<race_service, race_request, race_response, other, description, model, original_text, summary_text, reading_mode, pc, prompt,
                   response, result, tier, calls, prompts, tracker, tracking_status, success, supabase>>

\* a request that passed TextComparisonRequest (min_length=1: a text of blanks
\* only has no words) arriving at the endpoint
InitHttp ==
    /\ model \in {"configured", "none"}
    /\ original_text \in RequestTexts
    /\ summary_text = <<"a">>
    /\ reading_mode = "detailed"
    /\ pc = "entry"
    /\ prompt = NoPrompt
    /\ response = NoResponse
    /\ result = NoResult
    /\ tier = "None"
    /\ calls = 0
    /\ prompts = 0
    /\ http = "await"
    /\ tracker \in {"none", "present"}
    /\ tracking_status = "None"
    /\ success = "None"
    /\ supabase = NoSupabase
    /\ body = NoResult
    /\ description = "None"
    /\ other = NoCall
    /\ race_service = NoService
    /\ race_request = NoRequest
    /\ race_response = NoReply

NextHttp ==
    \/ CheckAvailable
    \/ CreatePrompt
    \/ GenerateContent
    \/ ParseResponse
    \/ ExceptHandler
    \/ TrackActivity
    \/ Respond

SpecHttp == InitHttp /\ [][NextHttp]_vars

(***************************************************************************)
(* Replies written in the layout _fallback_parsing scans for: a score      *)
(* line, then sections, each a header line followed by bullet lines.       *)
(***************************************************************************)
MaxBullets == 2

\* bullet lines: a marker, then the text of the point
BulletLines == { [marker |-> "-", text |-> <<"point", "one">>],
                 [marker |-> "*", text |-> <<"two">>] }

\* the headers of a reply, in the order they are written
HeaderLayouts ==
    { <<>>, <<"Correct:">>, <<"Missed:">>, <<"Wrong:">>,
      <<"Correct:", "Missed:">>, <<"Missed:", "Correct:">>,
      <<"Missed:", "Wrong:">>, <<"Correct:", "Correct:">>,
      <<"Correct:", "Missed:", "Wrong:">> }

\* a reply: the score N, the headers and the bullets under each header
SectionedReplies ==
    UNION { { [score |-> n, headers |-> h, bullets |-> b] :
                n \in {7, 70},
                b \in [DOMAIN h -> SeqsUpTo(BulletLines, MaxBullets)] } :
            h \in HeaderLayouts }

RECURSIVE SectionLines(_, _)
\* the lines of the sections from the k-th on
SectionLines(reply, k) ==
    IF k > Len(reply.headers) THEN <<>>
    ELSE << <<reply.headers[k]>> >>
         \o [i \in DOMAIN reply.bullets[k] |->
                <<reply.bullets[k][i].marker>> \o reply.bullets[k][i].text]
         \o SectionLines(reply, k + 1)

\* the raw text of a reply
ReplyText(reply) ==
    JoinWith(<< <<"Accuracy", "Score:", ToString(reply.score)>> >>
             \o SectionLines(reply, 1), NL)

RECURSIVE PointsUnder(_, _, _)
\* the texts of the bullets written under header from the k-th section on
PointsUnder(reply, header, k) ==
    IF k > Len(reply.headers) THEN <<>>
    ELSE (IF reply.headers[k] = header
          THEN [i \in DOMAIN reply.bullets[k] |-> reply.bullets[k][i].text]
          ELSE <<>>)
         \o PointsUnder(reply, header, k + 1)

\* what a reader of the reply takes from it
ReplyReading(reply) ==
    Tuple4(IntV(reply.score),
           StrListV(PointsUnder(reply, "Correct:", 1)),
           StrListV(PointsUnder(reply, "Missed:", 1)),
           StrListV(PointsUnder(reply, "Wrong:", 1)))

\* each sectioned reply's text with its reading
SectionedTexts ==
    { [text |-> ReplyText(reply), reading |-> ReplyReading(reply)] :
        reply \in SectionedReplies }

MaxLines == 3

\* lines a reply may hold: headers, bullets, a blank line, a remark
ScanLineKinds ==
    { <<"Correct:">>, <<"Missed:">>, <<"Wrong:">>, <<"Incorrect", "points:">>,
      <<"Errors:">>, <<"-", "point", "one">>, <<Bullet, "two">>, <<>>,
      <<"note">>, <<"*", "accurate", "dates">> }

\* the replies of up to MaxLines such lines
LinedTexts == { JoinWith(ls, NL) : ls \in SeqsUpTo(ScanLineKinds, MaxLines) }

\* result objects a reply may carry inside other text
CarriedObjects ==
    { BaseObject,
      ResultObject(IntV(0), StrListV(<<>>), StrListV(<<>>), StrListV(<< <<"c">> >>)) }

\* text without braces before and after the object: prose, score lines,
\* headers and bullets
ProseBefore ==
    { <<>>, <<"Here", "is", "the", "analysis:", NL>>,
      <<"Accuracy", "Score:", "70", NL, "Missed:", NL, "-", "point", "two", NL>> }
ProseAfter ==
    { <<>>, <<NL, "done">>,
      <<NL, "Accuracy", "Score:", "70", NL, "Correct:", NL, "-", "point", "one">> }

\* each carried object with a text that holds it between brace-free text
WrappedTexts ==
    { [text |-> before \o Serialize(o) \o after, object |-> o] :
        o \in CarriedObjects, before \in ProseBefore, after \in ProseAfter }

\* later text that holds braces of its own
BracedAfter ==
    { <<NL, "see", "{", "\"note\"", "}">>, <<NL, "{", "}">>, <<NL, "}">> }

\* each carried object with a text in which braces follow it
BracedTexts ==
    { [text |-> before \o Serialize(o) \o after, object |-> o] :
        o \in CarriedObjects, before \in ProseBefore, after \in BracedAfter }

ScanTexts ==
    { e.text : e \in SectionedTexts } \cup LinedTexts \cup ProseTexts \cup BrokenTexts
    \cup { e.text : e \in WrappedTexts } \cup { e.text : e \in BracedTexts }

\* the model has just returned a text and line 52 is about to interpret it
InitScan ==
    /\ model = "configured"
    /\ original_text = <<"a">>
    /\ summary_text = <<"a">>
    /\ reading_mode = "detailed"
    /\ pc = "parse"
    /\ prompt = _create_comparison_prompt(<<"a">>, <<"a">>, "detailed")
    /\ response \in { TextResponse(t) : t \in ScanTexts }
    /\ result = NoResult
    /\ tier = "None"
    /\ calls = 1
    /\ prompts = 1
    /\ http = "off"
    /\ tracker = "none"
    /\ tracking_status = "None"
    /\ success = "None"
    /\ supabase = NoSupabase
    /\ body = NoResult
    /\ description = "None"
    /\ other = NoCall
    /\ race_service = NoService
    /\ race_request = NoRequest
    /\ race_response = NoReply

SpecScan == InitScan /\ [][ParseResponse]_vars

(***************************************************************************)
(* The local word overlap on its own: a service without a model scores     *)
(* texts of up to MaxRefWords words.                                       *)
(***************************************************************************)
MaxRefWords == 3

OverlapVocabulary == {"a", "A", "b", "c"}

InitOverlap ==
    /\ model = "none"
    /\ original_text \in SeqsUpTo(OverlapVocabulary, MaxRefWords)
    /\ summary_text \in SeqsUpTo(OverlapVocabulary, MaxRefWords - 1) \cup {original_text}
    /\ reading_mode = "detailed"
    /\ pc = "entry"
    /\ prompt = NoPrompt
    /\ response = NoResponse
    /\ result = NoResult
    /\ tier = "None"
    /\ calls = 0
    /\ prompts = 0
    /\ http = "off"
    /\ tracker = "none"
    /\ tracking_status = "None"
    /\ success = "None"
    /\ supabase = NoSupabase
    /\ body = NoResult
    /\ description = "None"
    /\ other = NoCall
    /\ race_service = NoService
    /\ race_request = NoRequest
    /\ race_response = NoReply

SpecOverlap == InitOverlap /\ [][CheckAvailable]_vars

(***************************************************************************)
(* The prompt on its own: a configured service builds the prompt of a      *)
(* request in each reading mode, recognised or not.                        *)
(***************************************************************************)
PromptModes == KnownModes \cup {"bogus", "", "Detailed"}

InitPrompt ==
    /\ model = "configured"
    /\ original_text \in RequestTexts
    /\ summary_text \in RequestTexts
    /\ reading_mode \in PromptModes
    /\ pc = "entry"
    /\ prompt = NoPrompt
    /\ response = NoResponse
    /\ result = NoResult
    /\ tier = "None"
    /\ calls = 0
    /\ prompts = 0
    /\ http = "off"
    /\ tracker = "none"
    /\ tracking_status = "None"
    /\ success = "None"
    /\ supabase = NoSupabase
    /\ body = NoResult
    /\ description = "None"
    /\ other = NoCall
    /\ race_service = NoService
    /\ race_request = NoRequest
    /\ race_response = NoReply

NextPrompt ==
    \/ CheckAvailable
    \/ CreatePrompt

SpecPrompt == InitPrompt /\ [][NextPrompt]_vars

(***************************************************************************)
(* Two compare_texts calls on one service instance.  Each call has its     *)
(* parameters and local variables; self.model is the one attribute both    *)
(* read.  The steps of the two calls interleave in any order.              *)
(***************************************************************************)
\* everything but the second call's request and local variables
first_call == <<model, original_text, summary_text, reading_mode, pc, prompt,
                response, result, tier, calls, prompts, http, tracker,
                tracking_status, success, supabase, body, description, race_service, race_request,
                race_response>>

OtherResponses ==
    { BlockedResponse, TextResponse(Base), TextResponse(<<"Accuracy", "Score:", "250">>),
      TextResponse(<<"I", "cannot", "help">>) }

\* a call that reads the response the first call holds
response_of_first(call) == response

\* the local variable response of a call
response_of(call) == call.response

\* lines 40-42
OtherCheckAvailable ==
    /\ other.pc = "entry"
    /\ other' = IF ~is_available
                THEN [other EXCEPT
                        !.result = _simple_comparison(other.original_text,
                                                      other.summary_text),
                        !.tier = "local",
                        !.pc = "done"]
                ELSE [other EXCEPT !.pc = "prompt"]
    /\ UNCHANGED first_call

\* line 46
OtherCreatePrompt ==
    /\ other.pc = "prompt"
    /\ other' = [other EXCEPT
                    !.prompt = _create_comparison_prompt(other.original_text,
                                                         other.summary_text,
                                                         other.reading_mode),
                    !.pc = "call"]
    /\ UNCHANGED first_call

\* line 49
OtherGenerateContent ==
    /\ other.pc = "call"
    /\ \/ other' = [other EXCEPT !.calls = @ + 1, !.pc = Raise("call")]
       \/ \E r \in OtherResponses :
            other' = [other EXCEPT !.calls = @ + 1, !.response = r, !.pc = "parse"]
    /\ UNCHANGED first_call

\* line 52
OtherParseResponse ==
    /\ other.pc = "parse"
    /\ other' = IF response_of(other).kind = "blocked"
                THEN [other EXCEPT !.pc = Raise("parse")]
                ELSE LET r == _parse_comparison_response(response_of(other).text)
                     IN  [other EXCEPT !.result = r.res, !.tier = r.via, !.pc = "done"]
    /\ UNCHANGED first_call

\* lines 54-57
OtherExceptHandler ==
    /\ other.pc = "except"
    /\ other' = [other EXCEPT
                    !.result = _simple_comparison(other.original_text,
                                                  other.summary_text),
                    !.tier = "local",
                    !.pc = "done"]
    /\ UNCHANGED first_call

InitConcurrent ==
    /\ model \in {"configured", "none"}
    /\ original_text \in {<<>>, <<"a">>}
    /\ summary_text = <<"a">>
    /\ reading_mode = "detailed"
    /\ pc = "entry"
    /\ prompt = NoPrompt
    /\ response = NoResponse
    /\ result = NoResult
    /\ tier = "None"
    /\ calls = 0
    /\ prompts = 0
    /\ http = "off"
    /\ tracker = "none"
    /\ tracking_status = "None"
    /\ success = "None"
    /\ supabase = NoSupabase
    /\ body = NoResult
    /\ description = "None"
    /\ \E s \in {<<"a">>, <<"b">>} :
         other = [NoCall EXCEPT !.original_text = <<"b">>, !.summary_text = s,
                                !.reading_mode = "skimming", !.pc = "entry"]
    /\ race_service = NoService
    /\ race_request = NoRequest
    /\ race_response = NoReply

NextConcurrent ==
    \/ CheckAvailable
    \/ CreatePrompt
    \/ GenerateContent
    \/ ParseResponse
    \/ ExceptHandler
    \/ OtherCheckAvailable
    \/ OtherCreatePrompt
    \/ OtherGenerateContent
    \/ OtherParseResponse
    \/ OtherExceptHandler

SpecConcurrent == InitConcurrent /\ [][NextConcurrent]_vars

(***************************************************************************)
(* GET /random and GET /random-multiple (app/api/random_text.py) over the  *)
(* RACEDatasetService.  An article is kept as the number of characters of  *)
(* its text, len(article['text']); its id is its position in the list.     *)
(***************************************************************************)
MaxArticles == 2

MinLengthFloor == 10
MaxLengthCeiling == 10000
CountMin == 1
CountMax == 10

ArticleLengths == {8, 150, 20000}

\* the lengths of the three mock articles of load_dataset
MockArticles == <<104, 122, 111>>

\* the contents of data/race_samples.json
Datasets == SeqsUpTo(ArticleLengths, MaxArticles)

LengthParams == {5, 100, 200, 20000}
CountParams == {0, 1, 2, 15}

Service(loaded, articles) == [is_loaded |-> loaded, articles |-> articles, set |-> TRUE]

\* the dict a service method returns for the article at position i
TextOf(articles, i) == [id |-> i, length |-> articles[i]]

\* race_service.is_available() behind "not race_service or"
race_available == race_service.set /\ race_service.is_loaded /\ race_service.articles # <<>>

\* the positions of suitable_articles (lines 75-82 and 103-110): the articles
\* within the bounds, or all articles when none is
suitable_articles(articles, min_length, max_length) ==
    LET fit == {i \in DOMAIN articles :
                    min_length <= articles[i] /\ articles[i] <= max_length}
    IN  IF fit = {} THEN DOMAIN articles ELSE fit

\* get_random_text: the dicts random.choice may pick; none stands for None
get_random_text(service, min_length, max_length) ==
    IF ~service.is_loaded \/ service.articles = <<>> THEN {}
    ELSE { TextOf(service.articles, i) :
            i \in suitable_articles(service.articles, min_length, max_length) }

\* get_random_texts: the lists random.sample may return
get_random_texts(service, count, min_length, max_length) ==
    IF ~service.is_loaded \/ service.articles = <<>> THEN { <<>> }
    ELSE LET suitable == suitable_articles(service.articles, min_length, max_length)
             n == Min(count, Cardinality(suitable))
         IN  { [k \in 1..n |-> TextOf(service.articles, pick[k])] :
                 pick \in { f \in [1..n -> suitable] :
                              \A j, k \in 1..n : j # k => f[j] # f[k] } }

\* lines 60-65 and 104-109: the bounds after validation
ValidatedBounds(min_length, max_length) ==
    LET lo == IF min_length < MinLengthFloor THEN MinLengthFloor ELSE min_length
        hi == IF max_length > MaxLengthCeiling THEN MaxLengthCeiling ELSE max_length
    IN  IF lo > hi THEN [min_length |-> hi, max_length |-> lo]
        ELSE [min_length |-> lo, max_length |-> hi]

Reply(status, texts) == [status |-> status, texts |-> texts]

\* main.py lines 57-77: the service is created, load_dataset reads the data
\* file or takes the mock articles, or fails, and the module global is set
Startup ==
    /\ ~race_service.set
    /\ \/ \E d \in Datasets \cup {MockArticles} : race_service' = Service(TRUE, d)
       \/ race_service' = Service(FALSE, <<>>)
    /\ UNCHANGED <<race_request, race_response, other, description, model,
                   original_text, summary_text, reading_mode, pc, prompt, response,
                   result, tier, calls, prompts, http, tracker, tracking_status, success, supabase, body>>

\* GET /random (lines 36-76)
GetRandomText ==
    /\ \E min_length \in LengthParams, max_length \in LengthParams :
        /\ race_request' = [op |-> "random", count |-> 1,
                            min_length |-> min_length, max_length |-> max_length]
        /\ IF ~race_available
           THEN race_response' = Reply(503, <<>>)
           ELSE LET b == ValidatedBounds(min_length, max_length)
                    results == get_random_text(race_service, b.min_length, b.max_length)
                IN  IF results = {}
                    THEN race_response' = Reply(404, <<>>)
                    ELSE \E result_ \in results : race_response' = Reply(200, <<result_>>)
    /\ UNCHANGED <<race_service, other, description, model,
                   original_text, summary_text, reading_mode, pc, prompt, response,
                   result, tier, calls, prompts, http, tracker, tracking_status, success, supabase, body>>

\* count: int = Query(1, ge=1, le=10): the count the handler receives, 0 when
\* the request is refused with status 422
count_accepted(count) ==
    IF count >= CountMin /\ count <= CountMax THEN count ELSE 0

\* GET /random-multiple (lines 78-126)
GetRandomTexts ==
    /\ \E count \in CountParams, min_length \in LengthParams, max_length \in LengthParams :
        /\ race_request' = [op |-> "random-multiple", count |-> count,
                            min_length |-> min_length, max_length |-> max_length]
        /\ IF count_accepted(count) = 0
           THEN race_response' = Reply(422, <<>>)
           ELSE IF ~race_available
           THEN race_response' = Reply(503, <<>>)
           ELSE LET b == ValidatedBounds(min_length, max_length)
                IN  \E results \in get_random_texts(race_service, count_accepted(count),
                                                    b.min_length, b.max_length) :
                        race_response' = IF results = <<>> THEN Reply(404, <<>>)
                                         ELSE Reply(200, results)
    /\ UNCHANGED <<race_service, other, description, model,
                   original_text, summary_text, reading_mode, pc, prompt, response,
                   result, tier, calls, prompts, http, tracker, tracking_status, success, supabase, body>>

InitRandomText ==
    /\ model = "none"
    /\ original_text = <<>>
    /\ summary_text = <<>>
    /\ reading_mode = "detailed"
    /\ pc = "off"
    /\ prompt = NoPrompt
    /\ response = NoResponse
    /\ result = NoResult
    /\ tier = "None"
    /\ calls = 0
    /\ prompts = 0
    /\ http = "off"
    /\ tracker = "none"
    /\ tracking_status = "None"
    /\ success = "None"
    /\ supabase = NoSupabase
    /\ body = NoResult
    /\ description = "None"
    /\ other = NoCall
    /\ race_service = NoService
    /\ race_request = NoRequest
    /\ race_response = NoReply

NextRandomText ==
    \/ Startup
    \/ GetRandomText
    \/ GetRandomTexts

SpecRandomText == InitRandomText /\ [][NextRandomText]_vars

(***************************************************************************)
(* Two requests on one event loop.  A coroutine keeps the loop from its    *)
(* first statement until it awaits something that suspends it or returns.  *)
(* compare_texts holds no await: model.generate_content (line 49) is an    *)
(* ordinary call, so the coroutine keeps the loop while the call is        *)
(* outstanding (pc = "waiting").                                           *)
(***************************************************************************)
\* the positions of a compare_texts call between its first statement and its return
Running == {"prompt", "call", "waiting", "parse", "except"}

first_holds_loop == pc \in Running
other_holds_loop == other.pc \in Running

\* what the model answers in these runs: a refusal, a reply without text, a
\* reply of one word
LoopResponses == {BlockedResponse, TextResponse(<<>>), TextResponse(<<"ok">>)}

LoopCheckAvailable == ~other_holds_loop /\ CheckAvailable
LoopCreatePrompt == ~other_holds_loop /\ CreatePrompt
LoopParseResponse == ~other_holds_loop /\ ParseResponse
LoopExceptHandler == ~other_holds_loop /\ ExceptHandler

\* line 49, the call is made: the thread is inside generate_content
LoopCallModel ==
    /\ ~other_holds_loop
    /\ pc = "call"
    /\ pc' = "waiting"
    /\ UNCHANGED <<race_service, race_request, race_response, other, description,
                   model, original_text, summary_text, reading_mode, prompt,
                   response, result, tier, calls, prompts, http, tracker,
                   tracking_status, success, supabase, body>>

\* line 49, the call comes back with a response or raises
LoopModelReturns ==
    /\ ~other_holds_loop
    /\ pc = "waiting"
    /\ calls' = calls + 1
    /\ \/ /\ pc' = Raise("call")
          /\ UNCHANGED response
       \/ \E r \in LoopResponses :
            /\ response' = r
            /\ pc' = "parse"
    /\ UNCHANGED <<race_service, race_request, race_response, other, description,
                   model, original_text, summary_text, reading_mode, prompt,
                   result, tier, prompts, http, tracker, tracking_status, success, supabase, body>>

LoopOtherCheckAvailable == ~first_holds_loop /\ OtherCheckAvailable
LoopOtherCreatePrompt == ~first_holds_loop /\ OtherCreatePrompt

\* line 49 of the second request, the call is made
LoopOtherCallModel ==
    /\ ~first_holds_loop
    /\ other.pc = "call"
    /\ other' = [other EXCEPT !.pc = "waiting"]
    /\ UNCHANGED first_call

\* line 49 of the second request, the call comes back or raises
LoopOtherModelReturns ==
    /\ ~first_holds_loop
    /\ other.pc = "waiting"
    /\ \/ other' = [other EXCEPT !.calls = @ + 1, !.pc = Raise("call")]
       \/ \E r \in LoopResponses :
            other' = [other EXCEPT !.calls = @ + 1, !.response = r, !.pc = "parse"]
    /\ UNCHANGED first_call

LoopOtherParseResponse == ~first_holds_loop /\ OtherParseResponse
LoopOtherExceptHandler == ~first_holds_loop /\ OtherExceptHandler

\* the steps of the first request that are statements of the program
FirstSteps ==
    \/ LoopCheckAvailable
    \/ LoopCreatePrompt
    \/ LoopCallModel
    \/ LoopParseResponse
    \/ LoopExceptHandler

OtherSteps ==
    \/ LoopOtherCheckAvailable
    \/ LoopOtherCreatePrompt
    \/ LoopOtherCallModel
    \/ LoopOtherParseResponse
    \/ LoopOtherExceptHandler

NextLoop ==
    \/ LoopCheckAvailable
    \/ LoopCreatePrompt
    \/ LoopCallModel
    \/ LoopModelReturns
    \/ LoopParseResponse
    \/ LoopExceptHandler
    \/ LoopOtherCheckAvailable
    \/ LoopOtherCreatePrompt
    \/ LoopOtherCallModel
    \/ LoopOtherModelReturns
    \/ LoopOtherParseResponse
    \/ LoopOtherExceptHandler

\* the loop runs every coroutine that is ready and the model answers the
\* second request; how long it takes to answer the first is not promised
SpecLoop ==
    /\ InitConcurrent
    /\ [][NextLoop]_vars
    /\ WF_vars(FirstSteps)
    /\ WF_vars(OtherSteps)
    /\ WF_vars(LoopOtherModelReturns)

(***************************************************************************)
(* SupabaseManager (app/services/supabase_manager.py): connect, disconnect,*)
(* is_connected and log_activity on one manager.  No method awaits, so     *)
(* each call runs from its first statement to its return.                  *)
(***************************************************************************)
\* how the statements of connect can end: create_client raises (line 32), the
\* test query answers (line 37), or the test query raises a message that
\* holds "relation" or "does not exist" (line 46), "invalid" and "key"
\* (line 51), "jwt" (line 57), or none of them (line 62)
ConnectOutcomes ==
    {"create_client raised", "query ok", "relation", "does not exist",
     "invalid key", "jwt", "other error"}

\* the outcomes after which connect returns True (lines 38-40, 46-49)
ConnectSucceeds == {"query ok", "relation", "does not exist"}

\* a failed connect that leaves the client and the flag as they are
keep_state(m) == m

\* self._connected = False; self.client = None (lines 52-53, 58-59, 63-64, 70-71)
reset_state(m) == [m EXCEPT !._connected = FALSE, !.client = "None"]

\* lines 80-82
is_connected_of(m) == m._connected /\ m.client # "None"

\* lines 20-72; the state after connect ended as outcome says
connect(m, outcome) ==
    IF ~m.credentials
    THEN [m EXCEPT !.last = "no credentials"]
    ELSE IF outcome = "create_client raised"
    THEN [reset_state(m) EXCEPT !.last = outcome]
    ELSE LET created == [m EXCEPT !.client = "client"]
         IN  IF outcome \in ConnectSucceeds
             THEN [created EXCEPT !._connected = TRUE, !.last = outcome]
             ELSE [reset_state(created) EXCEPT !.last = outcome]

\* lines 74-78
disconnect(m) == [m EXCEPT !.client = "None", !._connected = FALSE, !.last = "disconnected"]

\* what the insert of line 173 can do
InsertOutcomes == {"data", "no data", "raised"}

\* lines 166-194: what log_activity returned and whether it issued the insert
log_activity(m, insert) ==
    IF ~is_connected_of(m)
    THEN [called |-> TRUE, after |-> m.last, returned |-> FALSE, inserted |-> FALSE]
    ELSE [called |-> TRUE, after |-> m.last, returned |-> (insert = "data"),
          inserted |-> TRUE]

Connect ==
    /\ \E outcome \in ConnectOutcomes : supabase' = connect(supabase, outcome)
    /\ UNCHANGED <<model, original_text, summary_text, reading_mode, pc, prompt,
                   response, result, tier, calls, prompts, http, tracker,
                   tracking_status, success, body, description, other,
                   race_service, race_request, race_response>>

Disconnect ==
    /\ supabase' = disconnect(supabase)
    /\ UNCHANGED <<model, original_text, summary_text, reading_mode, pc, prompt,
                   response, result, tier, calls, prompts, http, tracker,
                   tracking_status, success, body, description, other,
                   race_service, race_request, race_response>>

LogActivity ==
    /\ \E insert \in InsertOutcomes :
         supabase' = [supabase EXCEPT !.log = log_activity(supabase, insert)]
    /\ UNCHANGED <<model, original_text, summary_text, reading_mode, pc, prompt,
                   response, result, tier, calls, prompts, http, tracker,
                   tracking_status, success, body, description, other,
                   race_service, race_request, race_response>>

\* a manager as __init__ leaves it, with or without SUPABASE_URL and
\* SUPABASE_ANON_KEY in the environment
InitSupabase ==
    /\ model = "none"
    /\ original_text = <<>>
    /\ summary_text = <<>>
    /\ reading_mode = "None"
    /\ pc = "off"
    /\ prompt = NoPrompt
    /\ response = NoResponse
    /\ result = NoResult
    /\ tier = "None"
    /\ calls = 0
    /\ prompts = 0
    /\ http = "off"
    /\ tracker = "none"
    /\ tracking_status = "None"
    /\ success = "None"
    /\ \E credentials \in BOOLEAN : supabase = NewSupabase(credentials)
    /\ body = NoResult
    /\ description = "None"
    /\ other = NoCall
    /\ race_service = NoService
    /\ race_request = NoRequest
    /\ race_response = NoReply

NextSupabase ==
    \/ Connect
    \/ Disconnect
    \/ LogActivity

SpecSupabase == InitSupabase /\ [][NextSupabase]_vars

(***************************************************************************)
(* Properties                                                              *)
(***************************************************************************)
Returned4 == pc = "done"

\* the model call returned a response whose text could be read
GotText == response.kind = "text"

\* the raw text holds a "{" ... "}" span that json.loads decodes to an object
Decodes(text) ==
    /\ json_match(text) # <<>>
    /\ json_loads(json_match(text)).ok
    /\ json_loads(json_match(text)).v.t = "dict"

\* the value the decoded object holds under accuracy_score (0 when absent)
DecodedScore(text) ==
    dict_get(json_loads(json_match(text)).members, <<"accuracy_score">>, IntV(0))

\* each well-formed result object with the text that writes it
WellFormedTexts == {[object |-> o, text |-> Serialize(o)] : o \in WellFormedObjects}

LocalResult == _simple_comparison(original_text, summary_text)

\* C1: the accuracy score compare_texts returns is an integer in [0,100],
\* whichever strategy produced it.
C1_ScoreIsIntInRange ==
    Returned4 =>
        /\ IsInt(result.score)
        /\ ScoreMin <= result.score.n
        /\ result.score.n <= ScoreMax

\* C2: each of correct_points, missed_points and wrong_points returned by
\* compare_texts is a list of strings: never None, never a non-list, never a
\* list with a non-string element.
C2_PointsAreStringLists ==
    Returned4 =>
        /\ IsStrList(result.correct)
        /\ IsStrList(result.missed)
        /\ IsStrList(result.wrong)

\* C3: compare_texts never propagates an exception: whatever fails, the call
\* is at one of its own statements or has returned, and what it returns is a
\* tuple one of the three strategies produced.
C3_NeverRaises ==
    /\ pc # "raised"
    /\ pc \in {"entry", "prompt", "call", "parse", "except", "done"}
    /\ pc = "done" => tier \in {"structured", "heuristic", "local"} /\ result # NoResult

\* C3 witness: reading response.text raised and the call still returned a tuple
C3_Witness ==
    /\ Returned4
    /\ calls = 1
    /\ response.kind = "blocked"
    /\ result = LocalResult

\* C4: for every validated request and every model response the endpoint
\* answers 200 with a result, never 500 because of what the pipeline returned.
C4_NoServerError ==
    http # "error500"

\* C5: without a configured model compare_texts returns exactly the local
\* word-overlap result of the two request texts, builds no prompt and never
\* calls the model.
C5_UnconfiguredIsLocal ==
    model = "none" =>
        /\ pc \in {"entry", "done"}
        /\ prompts = 0 /\ calls = 0
        /\ prompt = NoPrompt /\ response = NoResponse
        /\ Returned4 => result = LocalResult /\ tier = "local"

\* C5 witness: an unconfigured service returned the overlap score of "A" against "a"
C5_Witness ==
    /\ model = "none"
    /\ Returned4
    /\ original_text = <<"A">> /\ summary_text = <<"a">>
    /\ result.score = IntV(100)

\* C6: when the configured model's call raises, compare_texts returns exactly
\* the local word-overlap result of the two request texts.
C6_FailedCallIsLocal ==
    (model = "configured" /\ Returned4 /\ calls = 1 /\ response = NoResponse) =>
        /\ result = LocalResult
        /\ tier = "local"

\* C6 witness: the call raised and the overlap of an empty reference was returned
C6_Witness ==
    /\ model = "configured"
    /\ Returned4
    /\ calls = 1 /\ response = NoResponse
    /\ original_text = <<>> /\ summary_text = <<"a">>
    /\ result.score = IntV(DefaultOverlapScore)

\* C7: when the model returned text that does not decode to an object (no
\* brace span, or a brace span that is not JSON), the result is the heuristic
\* line scan of that same text, and never the local word-overlap result.
C7_UndecodableIsHeuristic ==
    (Returned4 /\ GotText /\ ~Decodes(response.text)) =>
        /\ tier = "heuristic"
        /\ result = _fallback_parsing(response.text)

\* C7 witness: a brace span that is not JSON, scanned to the score of its score line
C7_Witness ==
    /\ Returned4 /\ GotText
    /\ json_match(response.text) # <<>>
    /\ ~json_loads(json_match(response.text)).ok
    /\ tier = "heuristic"
    /\ result.score = IntV(70)

\* C8: one compare_texts call invokes the model at most once, a failed call
\* is not retried, and once the local word-overlap path produced the result
\* no model call and no interpretation follows.
C8_AtMostOneCall ==
    /\ [](calls <= 1)
    /\ [][calls' # calls => calls = 0 /\ pc = "call"]_vars
    /\ [][tier = "local" =>
            calls' = calls /\ result' = result /\ tier' = tier /\ pc' = "done"]_vars

\* C8 witness: the one call failed and the local path returned
C8_Witness ==
    /\ Returned4
    /\ calls = 1
    /\ tier = "local"

\* C9: a decoded accuracy_score above 100 is returned as 100 and one below 0
\* as 0.
C9_ScoreIsClamped ==
    (Returned4 /\ GotText /\ Decodes(response.text)
        /\ IsInt(DecodedScore(response.text))) =>
        LET n == DecodedScore(response.text).n
        IN  /\ n > ScoreMax => result.score = IntV(ScoreMax)
            /\ n < ScoreMin => result.score = IntV(ScoreMin)

\* C10: a well-formed result object given as the raw text is returned as it
\* is by the structured strategy: the same score and the same three lists in
\* the same order.
C10_RoundTrip ==
    (Returned4 /\ GotText) =>
        \A e \in WellFormedTexts :
            response.text = e.text =>
                /\ tier = "structured"
                /\ result = Tuple4(e.object[1].val, e.object[2].val,
                                   e.object[3].val, e.object[4].val)

\* C10 witness: an object with two correct points and one missed point came back
C10_Witness ==
    /\ Returned4
    /\ response = TextResponse(Serialize(
            ResultObject(IntV(82), StrListV(<< <<"a">>, <<"b">> >>),
                         StrListV(<< <<"b">> >>), StrListV(<<>>))))
    /\ tier = "structured"
    /\ result.score = IntV(82)
    /\ result.correct = StrListV(<< <<"a">>, <<"b">> >>)
    /\ result.missed = StrListV(<< <<"b">> >>)
    /\ result.wrong = StrListV(<<>>)

\* C11: for a raw text without a JSON object that is an "Accuracy Score: N"
\* line followed by header lines ("Correct:", "Missed:", "Wrong:"), each
\* followed by bullet lines, the heuristic scan returns the score N and puts
\* each bullet's text, marker removed, in the list of the header it follows;
\* the list of a section that does not occur is empty.
C11_SectionedReplyIsRead ==
    (Returned4 /\ GotText /\ response.text \in { e.text : e \in SectionedTexts }) =>
        /\ tier = "heuristic"
        /\ [text |-> response.text, reading |-> result] \in SectionedTexts

\* C11 witness: the reply "Accuracy Score: 70 / Correct: / - point one /
\* Missed: / - point one / * two" was scanned to 70, one correct point and two
\* missed points
C11_Witness ==
    /\ Returned4
    /\ response.text = <<"Accuracy", "Score:", "70", NL, "Correct:", NL,
                         "-", "point", "one", NL, "Missed:", NL,
                         "-", "point", "one", NL, "*", "two">>
    /\ tier = "heuristic"
    /\ result = Tuple4(IntV(70), StrListV(<< <<"point", "one">> >>),
                       StrListV(<< <<"point", "one">>, <<"two">> >>),
                       StrListV(<<>>))

\* the lines of the raw text that begin with a bullet marker
BulletLinesOf(text) ==
    LET lines == SplitLines(text, 1, <<>>)
    IN  {k \in DOMAIN lines : lines[k] # <<>> /\ StartsWithBullet(lines[k])}

\* C12: for a raw text that holds no JSON object, no accuracy-score pattern
\* and no bullet line, the result is the score 50 with three empty lists,
\* produced by the heuristic scan and not by the local word overlap (none of
\* the overlap's placeholder strings is in it).
C12_PlainTextGetsDefault ==
    (Returned4 /\ GotText /\ ~Decodes(response.text)
        /\ score_match(response.text) = -1 /\ BulletLinesOf(response.text) = {}) =>
        /\ tier = "heuristic"
        /\ result = Tuple4(IntV(50), ListV(<<>>), ListV(<<>>), ListV(<<>>))
        /\ result # LocalResult

\* C12 witness: the reply "I cannot help" was given the score 50 and no points
C12_Witness ==
    /\ Returned4
    /\ response.text = <<"I", "cannot", "help">>
    /\ tier = "heuristic"
    /\ result.score = IntV(50)
    /\ result.correct = ListV(<<>>)

\* the lowercase words of the reference and those it shares with the candidate
ReferenceWords == WordSet(original_text)
SharedWords == WordSet(original_text) \cap WordSet(summary_text)

\* C13: the local word overlap returns 100 when reference and candidate are
\* the same text of at least one word, 0 when the reference has words and the
\* two lowercase word sets are disjoint, and 50 when the reference has no
\* word; it returns in each case (no division by zero).
C13_OverlapAnchors ==
    /\ pc \in {"entry", "done"}
    /\ (Returned4 /\ tier = "local") =>
        /\ IsInt(result.score)
        /\ (original_text = summary_text /\ original_text # <<>>) =>
                result.score = IntV(100)
        /\ (ReferenceWords # {} /\ SharedWords = {}) => result.score = IntV(0)
        /\ ReferenceWords = {} => result.score = IntV(50)

\* C13 witness: the empty reference was scored 50 against a candidate of two words
C13_Witness ==
    /\ Returned4 /\ tier = "local"
    /\ original_text = <<>> /\ summary_text = <<"a", "b">>
    /\ result.score = IntV(50)

PromptHolds(seg) == \E i \in DOMAIN prompt : prompt[i] = seg

\* C15: the prompt built for a request contains the description of the
\* request's reading mode together with the reference text and the candidate
\* text verbatim, so the same two texts in a mode of another description
\* give another prompt.
C15_PromptCarriesMode ==
    prompts = 1 =>
        /\ PromptHolds(Lit(description))
        /\ PromptHolds(Txt(original_text))
        /\ PromptHolds(Txt(summary_text))
        /\ \A m \in PromptModes :
                mode_desc(m) # description =>
                    _create_comparison_prompt(original_text, summary_text, m) # prompt

\* C16: mode resolution gives each of the eight recognised identifiers its
\* own description and every other identifier the description of "detailed";
\* it never fails.
C16_ModeResolution ==
    /\ pc \in {"entry", "prompt", "call"}
    /\ \A m, n \in KnownModes : m # n => mode_descriptions[m] # mode_descriptions[n]
    /\ prompts = 1 =>
        /\ reading_mode \in {"skimming", "comprehension", "study", "review",
                              "summary", "detailed", "critical", "comparison"}
                => description = mode_descriptions[reading_mode]
        /\ reading_mode \notin {"skimming", "comprehension", "study", "review",
                                 "summary", "detailed", "critical", "comparison"}
                => description = "Comprehensive analysis of all content and details"

\* C16 witness: the unrecognised mode "bogus" resolved to the description of
\* "detailed"
C16_Witness ==
    /\ prompts = 1
    /\ reading_mode = "bogus"
    /\ description = "Comprehensive analysis of all content and details"

\* what one compare_texts call returns on its own for the texts original and
\* summary when its model call, if it made one, left reply: no response (the
\* call raised), a response without readable text, or a text
SoloResult(original, summary, reply) ==
    IF model = "none" \/ reply.kind # "text"
    THEN _simple_comparison(original, summary)
    ELSE _parse_comparison_response(reply.text).res

\* C17: however the steps of two compare_texts calls on one service instance
\* interleave, each call returns what it returns alone for its own texts and
\* its own model response; a step of one call changes no variable of the
\* other, and no step changes the instance.
C17_CallsAreIndependent ==
    /\ [](Returned4 => result = SoloResult(original_text, summary_text, response))
    /\ [](other.pc = "done" =>
            other.result = SoloResult(other.original_text, other.summary_text,
                                      other.response))
    /\ [](pc # "raised" /\ other.pc # "raised")
    /\ [][other' # other => UNCHANGED first_call]_vars
    /\ [][model' = model]_vars

\* C17 witness: the first call returned the reading of its own reply while
\* the second call was holding a different reply, not yet interpreted
C17_Witness ==
    /\ Returned4 /\ tier = "structured"
    /\ other.pc = "parse"
    /\ other.response = TextResponse(<<"Accuracy", "Score:", "250">>)
    /\ result.score = IntV(82)

\* the request was answered with texts
Answered == race_response.status = 200

\* C18: every text the random-text operations return (single and multiple)
\* has a length between the requested min_length and max_length, whatever the
\* dataset holds and whatever the two bounds are.
C18_LengthWithinBounds ==
    Answered =>
        \A k \in DOMAIN race_response.texts :
            /\ race_request.min_length <= race_response.texts[k].length
            /\ race_response.texts[k].length <= race_request.max_length

\* C19: a random-multiple request that asks for more than 10 texts of an
\* available dataset is accepted and answered successfully with at most 10
\* texts.
C19_CountIsLimited ==
    (race_request.op = "random-multiple" /\ race_request.count > 10 /\ race_available) =>
        /\ Answered
        /\ Len(race_response.texts) <= 10
        /\ Len(race_response.texts) >= 1

\* the lines of the reply
LinesOf(text) == SplitLines(text, 1, <<>>)

\* a bullet line with a text that holds no section keyword
PlainBullet(line) ==
    /\ line # <<>>
    /\ StartsWithBullet(line)
    /\ AfterMarker(line) # <<>>
    /\ ~LineHas(line, {"correct", "good", "accurate", "missed", "missing",
                       "wrong", "incorrect", "error"})

\* C20: in the heuristic scan every line whose lowercase content contains
\* "wrong", "incorrect" or "error" makes wrong the current section, so a
\* bullet that follows a header such as "Incorrect points:" is placed in
\* wrong_points.
C20_WrongKeywordsSelectWrong ==
    (Returned4 /\ GotText /\ tier = "heuristic") =>
        LET lines == LinesOf(response.text)
        IN  \A k \in DOMAIN lines :
                (/\ k < Len(lines)
                 /\ lines[k] # <<>>
                 /\ LineHas(lines[k], {"wrong", "incorrect", "error"})
                 /\ PlainBullet(lines[k + 1])) =>
                    \E j \in DOMAIN result.wrong.l :
                        result.wrong.l[j] = StrA(AfterMarker(lines[k + 1]))

\* the line holds one of the section keywords
KeywordLine(line) ==
    LineHas(line, {"correct", "good", "accurate", "missed", "missing",
                   "wrong", "incorrect", "error"})

\* the points of the three returned lists
ReturnedPoints ==
    {result.correct.l[j] : j \in DOMAIN result.correct.l}
    \cup {result.missed.l[j] : j \in DOMAIN result.missed.l}
    \cup {result.wrong.l[j] : j \in DOMAIN result.wrong.l}

\* C21: in the heuristic scan every line that begins with a bullet marker
\* while a section is active (a keyword line came before it) contributes its
\* marker-stripped, non-empty text to a section's list, also when the bullet's
\* own text holds a section keyword.
C21_EveryBulletIsKept ==
    (Returned4 /\ GotText /\ tier = "heuristic") =>
        LET lines == LinesOf(response.text)
        IN  \A k \in DOMAIN lines :
                (/\ lines[k] # <<>>
                 /\ StartsWithBullet(lines[k])
                 /\ AfterMarker(lines[k]) # <<>>
                 /\ \E j \in 1..(k - 1) : lines[j] # <<>> /\ KeywordLine(lines[j])) =>
                    StrA(AfterMarker(lines[k])) \in ReturnedPoints

RECURSIVE ScanTrace(_, _)
\* the scan states before the first line and after each of the first k lines,
\* from no section and empty lists
ScanTrace(lines, k) ==
    IF k = 0
    THEN << [current_section |-> "None", correct_points |-> <<>>,
             missed_points |-> <<>>, wrong_points |-> <<>>] >>
    ELSE LET t == ScanTrace(lines, k - 1)
         IN  Append(t, ScanLine(t[k], lines[k]))

\* the three lists of a scan state
ListsOf(st) == <<st.correct_points, st.missed_points, st.wrong_points>>

\* the returned lists are those of the last state of the trace
ResultIsScanOf(trace) ==
    <<result.correct, result.missed, result.wrong>>
        = << ListV(trace[Len(trace)].correct_points),
             ListV(trace[Len(trace)].missed_points),
             ListV(trace[Len(trace)].wrong_points) >>

\* C22: in the heuristic scan the section starts as none and changes only on
\* keyword lines: bullet lines before the first keyword line are added to no
\* list, and blank lines and lines that are neither bullet nor keyword lines
\* leave the section as it is and add no point.
C22_SectionChangesOnKeywordLines ==
    (Returned4 /\ GotText /\ tier = "heuristic") =>
        LET lines == LinesOf(response.text)
            trace == ScanTrace(lines, Len(lines))
        IN  /\ ResultIsScanOf(trace)
            /\ \A k \in DOMAIN lines :
                LET before == trace[k]
                    after  == trace[k + 1]
                    keyword == lines[k] # <<>> /\ KeywordLine(lines[k])
                    bullet  == lines[k] # <<>> /\ StartsWithBullet(lines[k])
                IN  /\ ~keyword => after.current_section = before.current_section
                    /\ (~keyword /\ ~bullet) => after = before
                    /\ (\A j \in 1..k : lines[j] = <<>> \/ ~KeywordLine(lines[j])) =>
                            /\ after.current_section = "None"
                            /\ ListsOf(after) = << <<>>, <<>>, <<>> >>

\* C22 witness: the bullet before "Correct:" was dropped, the one after it kept
C22_Witness ==
    /\ Returned4
    /\ response.text = <<"-", "point", "one", NL, "Correct:", NL, Bullet, "two">>
    /\ result.correct = StrListV(<< <<"two">> >>)
    /\ result.missed = ListV(<<>>)
    /\ result.wrong = ListV(<<>>)

\* C23: the heuristic scan keeps the order of the lines and duplicates
\* nothing: a line adds at most one point, to one list, at that list's end,
\* and only a bullet line does; for any text the scan returns, with an
\* integer score (50 when no score is found) and three lists of strings,
\* all empty when the text has no bullet line.
C23_ScanKeepsOrder ==
    /\ pc \in {"parse", "done"}
    /\ (Returned4 /\ GotText /\ tier = "heuristic") =>
        LET lines == LinesOf(response.text)
            trace == ScanTrace(lines, Len(lines))
        IN  /\ ResultIsScanOf(trace)
            /\ \A k \in DOMAIN lines :
                LET before == ListsOf(trace[k])
                    after  == ListsOf(trace[k + 1])
                    grown  == {x \in 1..3 : after[x] # before[x]}
                IN  /\ Cardinality(grown) <= 1
                    /\ \A x \in grown :
                        /\ lines[k] # <<>> /\ StartsWithBullet(lines[k])
                        /\ after[x] = Append(before[x], StrA(AfterMarker(lines[k])))
            /\ IsInt(result.score) /\ result.score.n >= 0
            /\ score_match(response.text) = -1 => result.score = IntV(50)
            /\ IsStrList(result.correct) /\ IsStrList(result.missed)
            /\ IsStrList(result.wrong)
            /\ BulletLinesOf(response.text) = {} =>
                    ListsOf(trace[Len(trace)]) = << <<>>, <<>>, <<>> >>

\* C23 witness: two bullets under "Correct:" came back in the order written
C23_Witness ==
    /\ Returned4
    /\ response.text = <<"Correct:", NL, "-", "point", "one", NL, Bullet, "two">>
    /\ result.correct = StrListV(<< <<"point", "one">>, <<"two">> >>)

\* the tuple of the four values a result object holds
ValuesOf(object) ==
    Tuple4(object[1].val, object[2].val, object[3].val, object[4].val)

\* C24: the structured strategy is tried first and the heuristic scan runs
\* only when decoding failed: for a raw text that holds a decodable result
\* object together with prose, score lines or bullets, the result is the
\* object's four values and nothing the scan would find is mixed in.
C24_ObjectWinsOverScan ==
    (Returned4 /\ GotText) =>
        /\ \A e \in WrappedTexts :
                response.text = e.text =>
                    tier = "structured" /\ result = ValuesOf(e.object)
        /\ tier = "heuristic" => ~Decodes(response.text)
        /\ Decodes(response.text) => tier = "structured"

\* C24 witness: an object between a score line with a bullet and another score
\* line with a bullet was returned as it is, score 82 and not 70
C24_Witness ==
    /\ Returned4
    /\ response.text =
            <<"Accuracy", "Score:", "70", NL, "Missed:", NL, "-", "point", "two", NL>>
            \o Base
            \o <<NL, "Accuracy", "Score:", "70", NL, "Correct:", NL, "-", "point", "one">>
    /\ tier = "structured"
    /\ result = ValuesOf(BaseObject)

\* the decoded object has no member under accuracy_score
ScoreMissing(text) ==
    LET members == json_loads(json_match(text)).members
    IN  \A i \in DOMAIN members : members[i].key # <<"accuracy_score">>

\* C25: when structured decoding succeeds and the object has no
\* accuracy_score key or holds under it a value that is not a number (a
\* string, null, a list), the returned score is 0: not the value itself and
\* not the heuristic default 50.
C25_NonNumericScoreIsZero ==
    (Returned4 /\ GotText /\ Decodes(response.text)
        /\ (ScoreMissing(response.text)
            \/ DecodedScore(response.text).t \notin {"int", "float"})) =>
        result.score = IntV(0)

\* C26: structured extraction decodes the first balanced top-level
\* brace-delimited substring: a well-formed result object is returned by the
\* structured strategy whatever surrounds it, also when the text after it
\* holds further braces.
C26_FirstBalancedSpanIsDecoded ==
    (Returned4 /\ GotText) =>
        \A e \in WrappedTexts \cup BracedTexts :
            response.text = e.text =>
                tier = "structured" /\ result = ValuesOf(e.object)

\* C27: when the model call completed without usable text (the text is
\* empty, or reading it fails because the reply has none), compare_texts
\* returns the local word-overlap result and not the heuristic default.
C27_NoTextIsLocal ==
    (Returned4 /\ model = "configured" /\ calls = 1 /\ response # NoResponse
        /\ (response.kind = "blocked" \/ response.text = <<>>)) =>
        /\ tier = "local"
        /\ result = LocalResult

\* C28: the model call is a suspension point of compare_texts: while the
\* model call of one evaluation is outstanding, another evaluation on the
\* same event loop starts and runs to completion, however long the call
\* takes.
C28_SlowCallDelaysNoOne ==
    (pc = "waiting") ~> (other.pc = "done")

\* the tracker was asked and the endpoint went on
Tracked == http \in {"respond", "ok200", "error500"}

\* C29: activity tracking never changes or blocks the evaluation result:
\* whether the tracker is absent, returns False or raises, the endpoint
\* answers 200 with exactly the score and the three lists compare_texts
\* returned, and tracking_status is "tracked" only if the tracker returned
\* True, "failed" if it returned False or raised, "not_tracked" without a
\* tracker.
C29_TrackingLeavesResultAlone ==
    /\ Tracked =>
          /\ tracker = "none" => tracking_status = "not_tracked"
          /\ tracking_status = "tracked" => success = "True"
          /\ success \in {"False", "raised"} => tracking_status = "failed"
    /\ http \in {"ok200", "error500"} =>
          /\ http = "ok200"
          /\ body = result

\* what was asked of the manager last left it not connected
NotConnectedAfter == {"None", "disconnected", "no credentials"} \cup (ConnectOutcomes \ ConnectSucceeds)

\* C30: after any sequence of connect and disconnect calls is_connected() is
\* true only if a client is held and the most recent of them was a connect
\* that succeeded; after a failed connect or a disconnect it is false, and a
\* log_activity called then returns False without issuing an insert.
C30_ConnectedOnlyAfterSuccess ==
    /\ is_connected_of(supabase) =>
          /\ supabase.client # "None"
          /\ supabase.last \in ConnectSucceeds
    /\ supabase.last \in NotConnectedAfter => ~is_connected_of(supabase)
    /\ (supabase.log.called /\ supabase.log.after \in NotConnectedAfter) =>
          /\ ~supabase.log.returned
          /\ ~supabase.log.inserted

\* C30 witness: a manager whose connect was refused for an invalid key is
\* not connected; asked to log an activity it returned False without an insert
C30_Witness ==
    /\ supabase.credentials
    /\ supabase.last = "invalid key"
    /\ ~is_connected_of(supabase)
    /\ supabase.log.called
    /\ supabase.log.after = "invalid key"
    /\ ~supabase.log.returned /\ ~supabase.log.inserted

====
